---- MODULE Spec2Model ----
(***************************************************************************)
(* Model of the image stretching pipeline of image-stretcher-web           *)
(* (utils/imageStretching.ts): createIndexList, createGradient,            *)
(* buildNewImage, cropToOriginalSize, rotateImageData and stretchImage.    *)
(*                                                                         *)
(* A pixel buffer is a record [data, width, height]; data is the           *)
(* Uint8ClampedArray as a sequence of bytes, so the byte the code calls    *)
(* data[i] is data[i + 1] here.  One call of stretchImage is followed      *)
(* through its stages by the variable pc.                                  *)
(***************************************************************************)
EXTENDS Integers, Sequences, FiniteSets, TLC

(***************************************************************************)
(* Bounds of the model.                                                    *)
(***************************************************************************)
\* largest width of an input image
MaxW == 3
\* largest height of an input image
MaxH == 4

(***************************************************************************)
(* Values of the inputs.                                                   *)
(***************************************************************************)
\* 'none' stands for any runtime value outside the declared union
Directions == {"up", "down", "left", "right", "none"}

\* keys of inverseValueDict
Intensities == 1..13

Min(a, b) == IF a < b THEN a ELSE b
Max(a, b) == IF a > b THEN a ELSE b

\* startingPixel as a caller may pass it: below 0, inside the image, and
\* beyond the last row or column of every image
StartingPixels == (0 - 1)..Max(MaxW, MaxH)

\* The pipeline never branches on a pixel value: every output byte is a copy
\* of one input byte, a blend of two, or a constant.  The inputs are therefore
\* images whose pixels are pairwise different ('ramp', opaque; 'glass', with
\* alpha below 255), in which a byte in the wrong place always shows, and
\* images of one colour ('flat').  'wave' gives opaque images of any height
\* whose neighbouring rows differ, 'stripes' rows that are black and white
\* in turn.
ImageKinds == {"ramp", "glass", "flat"}

pixelOf(kind, x, y) ==
    CASE kind = "ramp"  -> <<10 + 40 * x, 10 + 40 * y, 200 - 20 * (x + y), 255>>
      [] kind = "glass" -> <<10 + 40 * x, 10 + 40 * y, 200 - 20 * (x + y),
                             100 + 10 * (x + 2 * y)>>
      [] kind = "flat"  -> <<200, 30, 30, 255>>
      [] kind = "wave"  -> <<(37 * y + 11 * x) % 256, (91 * y + 5) % 256,
                             (7 * y + 3 * x) % 256, 255>>
      [] kind = "stripes" -> IF y % 2 = 0 THEN <<0, 0, 0, 255>>
                             ELSE <<255, 255, 255, 255>>

\* the width x height buffer of a kind, row-major, 4 bytes per pixel
ImageOf(kind, w, h) ==
    [data   |-> [i \in 1..(w * h * 4) |->
                    pixelOf(kind, ((i - 1) \div 4) % w, ((i - 1) \div 4) \div w)
                        [((i - 1) % 4) + 1]],
     width  |-> w,
     height |-> h]

InputImages ==
    { ImageOf(kind, w, h) : kind \in ImageKinds, w \in 1..MaxW, h \in 1..MaxH }

InputParams ==
    [stretchRate : Intensities, startingPixel : StartingPixels, direction : Directions]

(***************************************************************************)
(* Typed array accesses.                                                   *)
(***************************************************************************)
\* data[i] stored into a Uint8ClampedArray: an index outside the array
\* reads undefined, which the store converts to 0
Load(data, i) == IF i >= 0 /\ i < Len(data) THEN data[i + 1] ELSE 0

\* new Uint8ClampedArray(data)
CopyOf(data) == [i \in 1..Len(data) |-> data[i]]

\* the pixel row `row` of a buffer, read byte by byte
RowOf(img, row) ==
    [i \in 1..(img.width * 4) |-> Load(img.data, row * img.width * 4 + (i - 1))]

\* the pixel column `col` of a buffer
ColOf(img, col) ==
    [y \in 1..img.height |->
        [c \in 1..4 |-> Load(img.data, ((y - 1) * img.width + col) * 4 + (c - 1))]]

(***************************************************************************)
(* createIndexList                                                         *)
(***************************************************************************)
\* a table growing with the rate, in quarters: 1 -> 1, 2 -> 1.25, ..., 13 -> 4
inverseValueDictGrowing == [r \in 1..13 |-> 3 + r]

\* inverseValueDict, in quarters: 13 -> 1, 12 -> 1.25, ..., 1 -> 4
inverseValueDict ==
    [r \in 1..13 |->
        CASE r = 13 -> 4  [] r = 12 -> 5  [] r = 11 -> 6  [] r = 10 -> 7
          [] r = 9  -> 8  [] r = 8  -> 9  [] r = 7  -> 10 [] r = 6  -> 11
          [] r = 5  -> 12 [] r = 4  -> 13 [] r = 3  -> 14 [] r = 2  -> 15
          [] r = 1  -> 16]

\* the table with one entry 1 less
pairsShortFirstRun ==
    << <<1, 12>>, <<2, 8>>, <<3, 5>>, <<5, 3>>, <<8, 2>>, <<13, 1>>, <<21, 1>>,
       <<34, 1>>, <<55, 1>>, <<89, 1>>, <<144, 1>>, <<233, 1>>, <<377, 1>>,
       <<610, 1>>, <<987, 1>> >>

\* the [value, count] table
pairs ==
    << <<1, 13>>, <<2, 8>>, <<3, 5>>, <<5, 3>>, <<8, 2>>, <<13, 1>>, <<21, 1>>,
       <<34, 1>>, <<55, 1>>, <<89, 1>>, <<144, 1>>, <<233, 1>>, <<377, 1>>,
       <<610, 1>>, <<987, 1>> >>

\* scaledCount with the product rounded to the nearest integer
scaledCountRounded(pair, stretchRate) ==
    IF stretchRate \in DOMAIN inverseValueDict
    THEN (pair[2] * inverseValueDict[stretchRate] + 2) \div 4
    ELSE 0

\* Math.floor(pair[1] * inverseValueDict[stretchRate]); a rate that is not a
\* key gives NaN, and the loop `i < NaN` pushes nothing
scaledCount(pair, stretchRate) ==
    IF stretchRate \in DOMAIN inverseValueDict
    THEN (pair[2] * inverseValueDict[stretchRate]) \div 4
    ELSE 0

RECURSIVE expandPairs(_, _)
expandPairs(k, stretchRate) ==
    IF k > Len(pairs) THEN << >>
    ELSE [i \in 1..scaledCount(pairs[k], stretchRate) |-> pairs[k][1]]
            \o expandPairs(k + 1, stretchRate)

createIndexList(stretchRate) == expandPairs(1, stretchRate)

\* createIndexList step by step on the array object it works on.
\* a table that outlives the call: the array of the call before is used again
pairsKeptBetweenCalls(previous) == IF previous = << >> THEN pairs ELSE previous

\* `const pairs = [...]` inside the function: every call makes a new array,
\* whatever the array of the call before holds
newPairs(previous) == pairs

\* the loop `pair[1] = Math.floor(pair[1] * inverseValueDict[stretchRate])`,
\* which overwrites the counts in the array
scalePairs(table, stretchRate) ==
    [k \in DOMAIN table |-> <<table[k][1], scaledCount(table[k], stretchRate)>>]

RECURSIVE pushPairs(_, _)
\* the loop that pushes pair[0] pair[1] times, from entry k on
pushPairs(table, k) ==
    IF k > Len(table) THEN << >>
    ELSE [i \in 1..table[k][2] |-> table[k][1]] \o pushPairs(table, k + 1)

(***************************************************************************)
(* createGradient                                                          *)
(***************************************************************************)
\* The interpolation is computed in IEEE double precision:
\*     step = (endVal - startVal) / (gradientSize + 1)
\*     Math.round(startVal + step * gradientRow)
\* Each of the three operations rounds to 53 significant bits, ties to even.
\* The rounding errors are far below the distance between an exact value
\* and the next half, so they only decide the result when the exact value
\* startVal + (endVal - startVal) * gradientRow / (gradientSize + 1) is a
\* half; there the sign of the accumulated error is followed through the
\* three roundings with the remainders of the division.

RECURSIVE floorLog2(_, _)
\* the e with 2^e <= num / den < 2^(e + 1): the binade of a double
floorLog2(num, den) ==
    IF num >= 2 * den THEN floorLog2(num, 2 * den) + 1
    ELSE IF num < den THEN floorLog2(2 * num, den) - 1
    ELSE 0

RECURSIVE pow2Mod(_, _, _)
\* acc * 2^p modulo m
pow2Mod(p, m, acc) ==
    IF p = 0 \/ acc = 0 THEN acc ELSE pow2Mod(p - 1, m, (2 * acc) % m)

\* num / den rounded to the nearest integer, a tie to the even one
roundTiesEven(num, den) ==
    LET f   == num \div den
        rem == num - f * den
    IN  IF 2 * rem > den \/ (2 * rem = den /\ f % 2 = 1) THEN f + 1 ELSE f

\* the result of Math.round when the exact value is lower + 1/2
roundAtHalf(startVal, endVal, gradientSize, gradientRow, lower) ==
    LET q    == gradientSize + 1
        sign == IF endVal > startVal THEN 1 ELSE 0 - 1
        dist == IF endVal > startVal THEN endVal - startVal ELSE startVal - endVal
        \* step = dist / q rounded to 53 bits: its last bit weighs 2^(-p)
        e    == floorLog2(dist, q)
        p    == 52 - e
        r    == (dist * pow2Mod(p, q, 1 % q)) % q
        r2   == (dist * pow2Mod(p, 2 * q, 1)) % (2 * q)
        odd  == ((r2 - r) \div q) % 2 = 1
        \* |step| = dist / q - err / (q * 2^p)
        err  == IF 2 * r > q \/ (2 * r = q /\ odd) THEN r - q ELSE r
        \* |step * gradientRow| before rounding is
        \*   gradientRow * dist / q - gradientRow * err / (q * 2^p)
        e2   == IF gradientRow * err > 0 /\ 2 * gradientRow * dist = q
                THEN 0 - 2
                ELSE floorLog2(gradientRow * dist, q)
        \* the product rounded: gradientRow * dist / q - below * 2^(e2 - 52)
        below == roundTiesEven(gradientRow * err, q * 2 ^ (e2 - e))
        \* startVal + product before rounding is lower + 1/2 - off * 2^(e2 - 52)
        off  == sign * below
        e3   == IF off > 0 /\ lower = 0 THEN 0 - 2 ELSE floorLog2(2 * lower + 1, 2)
        off3 == IF e3 <= e2 THEN off ELSE roundTiesEven(off, 2 ^ (e3 - e2))
    IN  IF off3 <= 0 THEN lower + 1 ELSE lower

\* Math.round(startVal + step * gradientRow); Math.round rounds a half up
gradientValue(startVal, endVal, gradientSize, gradientRow) ==
    LET q     == gradientSize + 1
        twice == 2 * startVal * q + 2 * (endVal - startVal) * gradientRow + q
        exact == twice \div (2 * q)
    IN  IF twice % (2 * q) = 0 /\ endVal # startVal
        THEN roundAtHalf(startVal, endVal, gradientSize, gradientRow, exact - 1)
        ELSE exact

\* the gradient rows at half opacity
gradientAlphaHalved == 255 \div 2

\* the alpha the gradient loop stores in each interpolated pixel
gradientAlpha == 255

createGradient(twoRowArray, gradientSize, width) ==
    [g \in 1..(gradientSize + 2) |->
        IF g = 1 THEN [i \in 1..(width * 4) |-> twoRowArray[1][i]]
        ELSE IF g = gradientSize + 2 THEN [i \in 1..(width * 4) |-> twoRowArray[2][i]]
        ELSE [i \in 1..(width * 4) |->
                IF (i - 1) % 4 = 3 THEN gradientAlpha
                ELSE gradientValue(twoRowArray[1][i], twoRowArray[2][i],
                                   gradientSize, g - 1)]]

(***************************************************************************)
(* buildNewImage                                                           *)
(***************************************************************************)
RECURSIVE sumRuns(_, _)
\* the loop `newHeight += indexList[i] + 1` for i < n
sumRuns(indexList, n) ==
    IF n <= 0 THEN 0 ELSE sumRuns(indexList, n - 1) + indexList[n] + 1

\* a height that counts every entry of the list, used or not
buildHeightWholeList(indexList, height, startingPixel) ==
    startingPixel + sumRuns(indexList, Len(indexList))

\* the height the output array is allocated with
buildHeight(indexList, height, startingPixel) ==
    startingPixel + sumRuns(indexList, Min(Len(indexList), height - startingPixel - 1))

RECURSIVE buildLoop(_, _, _, _, _, _)
\* the loop over sourceRow; rows holds the output rows written from row
\* startingPixel on, newRowIndex is the write cursor
buildLoop(indexList, src, newHeight, sourceRow, newRowIndex, rows) ==
    LET indexListIndex == Len(rows.steps) IN
    IF ~(sourceRow < src.height - 1 /\ indexListIndex < Len(indexList))
    THEN [rows |-> rows.rows, newRowIndex |-> newRowIndex]
    ELSE IF newRowIndex >= newHeight
    THEN [rows |-> rows.rows, newRowIndex |-> newRowIndex]
    ELSE LET gradientSize  == indexList[indexListIndex + 1]
             row1          == RowOf(src, sourceRow)
             row2          == RowOf(src, sourceRow + 1)
             gradientArray == createGradient(<<row1, row2>>, gradientSize, src.width)
             copied        == Min(Len(gradientArray) - 1, newHeight - newRowIndex)
         IN  buildLoop(indexList, src, newHeight, sourceRow + 1, newRowIndex + copied,
                       [rows  |-> rows.rows \o SubSeq(gradientArray, 1, copied),
                        steps |-> Append(rows.steps, gradientSize)])

\* buildNewImage whose row loop starts at the first source row
buildNewImageFromFirstRow(indexList, sourceImageData, startingPixel) ==
    LET width     == sourceImageData.width
        height    == sourceImageData.height
        newHeight == buildHeight(indexList, height, startingPixel)
        loop      == buildLoop(indexList, sourceImageData, newHeight, 0,
                               startingPixel, [rows |-> << >>, steps |-> << >>])
        newData   ==
            [i \in 1..(newHeight * width * 4) |->
                LET row == (i - 1) \div (width * 4)
                    col == (i - 1) % (width * 4)
                IN  IF row < startingPixel
                    THEN Load(sourceImageData.data, row * width * 4 + col)
                    ELSE IF row - startingPixel < Len(loop.rows)
                    THEN loop.rows[row - startingPixel + 1][col + 1]
                    ELSE 0]
    IN  [data |-> newData, width |-> width, height |-> loop.newRowIndex]

buildNewImage(indexList, sourceImageData, startingPixel) ==
    LET width     == sourceImageData.width
        height    == sourceImageData.height
        newHeight == buildHeight(indexList, height, startingPixel)
        loop      == buildLoop(indexList, sourceImageData, newHeight, startingPixel,
                               startingPixel, [rows |-> << >>, steps |-> << >>])
        newData   ==
            [i \in 1..(newHeight * width * 4) |->
                LET row == (i - 1) \div (width * 4)
                    col == (i - 1) % (width * 4)
                IN  IF row < startingPixel
                    THEN Load(sourceImageData.data, row * width * 4 + col)
                    ELSE IF row - startingPixel < Len(loop.rows)
                    THEN loop.rows[row - startingPixel + 1][col + 1]
                    ELSE 0]
    IN  [data |-> newData, width |-> width, height |-> loop.newRowIndex]

RECURSIVE buildSourceRows(_, _, _, _, _, _)
\* the values of sourceRow for which the row loop runs its body
buildSourceRows(indexList, height, newHeight, sourceRow, newRowIndex, indexListIndex) ==
    IF ~(sourceRow < height - 1 /\ indexListIndex < Len(indexList))
    THEN {}
    ELSE IF newRowIndex >= newHeight
    THEN {}
    ELSE {sourceRow} \cup
         buildSourceRows(indexList, height, newHeight, sourceRow + 1,
                         newRowIndex + Min(indexList[indexListIndex + 1] + 1,
                                           newHeight - newRowIndex),
                         indexListIndex + 1)

\* the indexes at which buildNewImage reads sourceData: the rows before
\* startingPixel, and sourceRow and sourceRow + 1 in every run of the row loop
buildReadIndexes(indexList, sourceImageData, startingPixel) ==
    LET width == sourceImageData.width
        rows  == buildSourceRows(indexList, sourceImageData.height,
                                 buildHeight(indexList, sourceImageData.height,
                                             startingPixel),
                                 startingPixel, startingPixel, 0)
    IN  { row * width * 4 + i :
            row \in 0..(startingPixel - 1), i \in 0..(width * 4 - 1) }
        \cup
        { (row + d) * width * 4 + i :
            row \in rows, d \in {0, 1}, i \in 0..(width * 4 - 1) }

(***************************************************************************)
(* cropToOriginalSize                                                      *)
(***************************************************************************)
\* cropStart with the anchors of down and up exchanged
cropStartDownKeepsBottom(width, height, cropWidth, cropHeight, direction) ==
    CASE direction = "down"  -> <<0, Max(0, height - cropHeight)>>
      [] direction = "up"    -> <<0, 0>>
      [] direction = "right" -> <<0, 0>>
      [] direction = "left"  -> <<Max(0, width - cropWidth), 0>>
      [] OTHER               -> <<0, 0>>

\* the switch on direction: [startX, startY]; it has no default case
cropStart(width, height, cropWidth, cropHeight, direction) ==
    CASE direction = "down"  -> <<0, 0>>
      [] direction = "up"    -> <<0, Max(0, height - cropHeight)>>
      [] direction = "right" -> <<0, 0>>
      [] direction = "left"  -> <<Max(0, width - cropWidth), 0>>
      [] OTHER               -> <<0, 0>>

\* cropSourceIndex without the Math.min against the last column and row
cropSourceIndexUnclamped(width, height, start, x, y) ==
    (((start[2] + y) * width) + (start[1] + x)) * 4

\* the index of the stretched byte that target pixel (x, y) is copied from
cropSourceIndex(width, height, start, x, y) ==
    LET sourceX == Min(start[1] + x, width - 1)
        sourceY == Min(start[2] + y, height - 1)
    IN  (sourceY * width + sourceX) * 4

\* cropToOriginalSize that only keeps the result from exceeding the original
\* size
cropToOriginalSizeAtMost(stretchedData, originalWidth, originalHeight, direction) ==
    LET width      == stretchedData.width
        height     == stretchedData.height
        cropWidth  == Min(originalWidth, width)
        cropHeight == Min(originalHeight, height)
        start      == cropStart(width, height, cropWidth, cropHeight, direction)
        croppedData ==
            [i \in 1..(cropWidth * cropHeight * 4) |->
                LET x == ((i - 1) \div 4) % cropWidth
                    y == ((i - 1) \div 4) \div cropWidth
                    c == (i - 1) % 4
                IN  Load(stretchedData.data,
                         cropSourceIndex(width, height, start, x, y) + c)]
    IN  IF width = cropWidth /\ height = cropHeight
        THEN stretchedData
        ELSE [data |-> croppedData, width |-> cropWidth, height |-> cropHeight]

cropToOriginalSize(stretchedData, originalWidth, originalHeight, direction) ==
    LET width      == stretchedData.width
        height     == stretchedData.height
        cropWidth  == originalWidth
        cropHeight == originalHeight
        start      == cropStart(width, height, cropWidth, cropHeight, direction)
        croppedData ==
            [i \in 1..(cropWidth * cropHeight * 4) |->
                LET x == ((i - 1) \div 4) % cropWidth
                    y == ((i - 1) \div 4) \div cropWidth
                    c == (i - 1) % 4
                IN  Load(stretchedData.data,
                         cropSourceIndex(width, height, start, x, y) + c)]
    IN  IF width = cropWidth /\ height = cropHeight
        THEN stretchedData
        ELSE [data |-> croppedData, width |-> cropWidth, height |-> cropHeight]

\* the indexes at which cropToOriginalSize reads the stretched data; a
\* buffer of the original size is returned without a read
cropReadIndexes(stretchedData, originalWidth, originalHeight, direction) ==
    LET width  == stretchedData.width
        height == stretchedData.height
        start  == cropStart(width, height, originalWidth, originalHeight, direction)
    IN  IF width = originalWidth /\ height = originalHeight
        THEN {}
        ELSE { cropSourceIndex(width, height, start, x, y) + c :
                 x \in 0..(originalWidth - 1), y \in 0..(originalHeight - 1),
                 c \in 0..3 }

(***************************************************************************)
(* rotateImageData                                                         *)
(***************************************************************************)
\* rotateTargetIndex whose clockwise turn does not reverse the rows
rotateTargetIndexTransposing(x, y, width, height, clockwise) ==
    LET newWidth == height
        newX     == y
        newY     == IF clockwise THEN x ELSE width - 1 - x
    IN  (newY * newWidth + newX) * 4

\* the index of the target byte that source pixel (x, y) is written to
rotateTargetIndex(x, y, width, height, clockwise) ==
    LET newWidth == height
        newX     == IF clockwise THEN height - 1 - y ELSE y
        newY     == IF clockwise THEN x ELSE width - 1 - x
    IN  (newY * newWidth + newX) * 4

\* new ImageData(data, sw, sh) raises when data is empty or does not hold
\* sw x sh pixels (HTML Standard, ImageData constructor)
imageDataThrows(data, sw, sh) ==
    \/ Len(data) = 0
    \/ Len(data) % 4 # 0
    \/ sw = 0
    \/ (Len(data) \div 4) % sw # 0
    \/ (Len(data) \div 4) \div sw # sh

\* rotateImageData that turns clockwise whatever it is asked
rotateImageDataAlwaysClockwise(imageData, clockwise) ==
    LET width     == imageData.width
        height    == imageData.height
        newWidth  == height
        newHeight == width
        newData   ==
            [t \in 1..(newWidth * newHeight * 4) |->
                LET c       == (t - 1) % 4
                    writers == { p \in (0..(width - 1)) \X (0..(height - 1)) :
                                    rotateTargetIndex(p[1], p[2], width, height, TRUE)
                                        = (t - 1) - c }
                IN  IF writers = {} THEN 0
                    ELSE LET last == CHOOSE p \in writers :
                                        \A q \in writers :
                                            q[2] * width + q[1] <= p[2] * width + p[1]
                         IN  Load(imageData.data, (last[2] * width + last[1]) * 4 + c)]
    IN  [data |-> newData, width |-> newWidth, height |-> newHeight]

rotateImageData(imageData, clockwise) ==
    LET width     == imageData.width
        height    == imageData.height
        newWidth  == height
        newHeight == width
        newData   ==
            [t \in 1..(newWidth * newHeight * 4) |->
                LET c       == (t - 1) % 4
                    writers == { p \in (0..(width - 1)) \X (0..(height - 1)) :
                                    rotateTargetIndex(p[1], p[2], width, height, clockwise)
                                        = (t - 1) - c }
                IN  IF writers = {} THEN 0
                    ELSE LET last == CHOOSE p \in writers :
                                        \A q \in writers :
                                            q[2] * width + q[1] <= p[2] * width + p[1]
                         IN  Load(imageData.data, (last[2] * width + last[1]) * 4 + c)]
    IN  [data |-> newData, width |-> newWidth, height |-> newHeight]

(***************************************************************************)
(* stretchImage                                                            *)
(***************************************************************************)
\* toWorking whose default case leaves startingPixel as passed
toWorkingDefaultUnclamped(imageData, startingPixel, direction) ==
    CASE direction = "down" ->
            [image |-> imageData,
             startingPixel |-> Min(startingPixel, imageData.height - 1)]
      [] direction = "up" ->
            LET rotated == rotateImageData(rotateImageData(imageData, TRUE), TRUE)
            IN  [image |-> rotated,
                 startingPixel |->
                    rotated.height - Min(startingPixel, imageData.height - 1) - 1]
      [] direction = "right" ->
            LET rotated == rotateImageData(imageData, TRUE)
            IN  [image |-> rotated,
                 startingPixel |->
                    rotated.height - Min(startingPixel, imageData.width - 1) - 1]
      [] direction = "left" ->
            [image |-> rotateImageData(imageData, FALSE),
             startingPixel |-> Min(startingPixel, imageData.width - 1)]
      [] OTHER ->
            [image |-> imageData, startingPixel |-> startingPixel]

\* the first switch on direction: the rotated image and the row to start at
toWorking(imageData, startingPixel, direction) ==
    CASE direction = "down" ->
            [image |-> imageData,
             startingPixel |-> Min(startingPixel, imageData.height - 1)]
      [] direction = "up" ->
            LET rotated == rotateImageData(rotateImageData(imageData, TRUE), TRUE)
            IN  [image |-> rotated,
                 startingPixel |->
                    rotated.height - Min(startingPixel, imageData.height - 1) - 1]
      [] direction = "right" ->
            LET rotated == rotateImageData(imageData, TRUE)
            IN  [image |-> rotated,
                 startingPixel |->
                    rotated.height - Min(startingPixel, imageData.width - 1) - 1]
      [] direction = "left" ->
            [image |-> rotateImageData(imageData, FALSE),
             startingPixel |-> Min(startingPixel, imageData.width - 1)]
      [] OTHER ->
            [image |-> imageData,
             startingPixel |-> Min(startingPixel, imageData.height - 1)]

\* the second switch on direction raises when it wraps an empty buffer in an
\* ImageData
rotateBackThrows(stretchedData, direction) ==
    /\ direction \in {"up", "right", "left"}
    /\ imageDataThrows(stretchedData.data, stretchedData.width, stretchedData.height)

\* the second switch on direction; it has no default case
rotateBack(stretchedData, direction) ==
    CASE direction = "down"  -> stretchedData
      [] direction = "up"    ->
            rotateImageData(rotateImageData(stretchedData, TRUE), TRUE)
      [] direction = "right" -> rotateImageData(stretchedData, FALSE)
      [] direction = "left"  -> rotateImageData(stretchedData, TRUE)
      [] OTHER               -> stretchedData

\* copyOfInput that allocates an array of the input's length without its bytes
copyOfInputZeroed(imageData) ==
    [data |-> [i \in 1..Len(imageData.data) |-> 0], width |-> imageData.width,
     height |-> imageData.height]

\* the buffer both fallbacks return
copyOfInput(imageData) ==
    [data |-> CopyOf(imageData.data), width |-> imageData.width,
     height |-> imageData.height]

\* the value a call returns
\* stretchImage after `const indexList = createIndexList(stretchRate)`
stretchImageWith(indexList, imageData, params) ==
    LET working == toWorking(imageData, params.startingPixel, params.direction)
        built   == buildNewImage(indexList, working.image, working.startingPixel)
    IN  IF working.startingPixel < working.image.height
        THEN IF rotateBackThrows(built, params.direction)
             THEN copyOfInput(imageData)
             ELSE cropToOriginalSize(rotateBack(built, params.direction),
                                     imageData.width, imageData.height,
                                     params.direction)
        ELSE copyOfInput(imageData)

stretchImage(imageData, params) ==
    stretchImageWith(createIndexList(params.stretchRate), imageData, params)

(***************************************************************************)
(* One call of stretchImage, stage by stage.                               *)
(***************************************************************************)
\* the caller's buffer
VARIABLE imageData
\* the caller's StretchParams
VARIABLE params
\* the stage the call has reached
VARIABLE pc
\* the rotated buffer
VARIABLE workingImageData
\* the row handed to buildNewImage
VARIABLE workingStartingPixel
\* the buffer under construction
VARIABLE stretchedData
\* the returned buffer
VARIABLE result
\* whether a stage raised inside the try block
VARIABLE thrown
\* a direct call of one function of the module: [fn, args, done, out]
VARIABLE call

\* what calls of stretchImage made one after the other leave behind: the
\* pairs array of the last call, and for every argument how often it was
\* passed and the buffers that were returned for it
VARIABLE session

\* which Uint8ClampedArray each buffer of a call holds as its data: arrays
\* are numbered as they are allocated, `written` holds the arrays that were
\* stored into
VARIABLE arrays

\* the state of the ImageStretcher component, its canvases and its timers
VARIABLE component

vars == <<imageData, params, pc, workingImageData, workingStartingPixel,
          stretchedData, result, thrown, call, session, arrays, component>>

NoBuffer == [data |-> << >>, width |-> 0, height |-> 0]

NoCall == [fn |-> "none", args |-> << >>, done |-> FALSE, out |-> << >>]

\* largest number of calls made one after the other
MaxCalls == 3
\* height of the tall image passed in such calls
MaxSeqH == 28

\* arguments of calls made one after the other: an image of one row and one
\* tall enough to show the fourteenth entry of a list, three intensities,
\* two directions
SeqArgs ==
    { [imageData |-> ImageOf("wave", 1, h),
       params |-> [stretchRate |-> r, startingPixel |-> 0, direction |-> d]] :
        h \in {1, MaxSeqH}, r \in {1, 7, 13}, d \in {"down", "up"} }

\* the caller's array is array 1; 0 stands for no array
NoArrays ==
    [input |-> 1, working |-> 0, stretched |-> 0, result |-> 0,
     allocated |-> 1, written |-> {}]

\* an assignment of a buffer: `slot` holds the array that `from` holds
sameArray(a, slot, from) == [a EXCEPT ![slot] = a[from]]

\* `new Uint8ClampedArray(...)`: the next array, filled by the stage that
\* allocates it, becomes the data of the buffer `slot`
allocate(a, slot) ==
    [a EXCEPT ![slot] = a.allocated + 1,
              !.allocated = a.allocated + 1,
              !.written = a.written \cup {a.allocated + 1}]

\* a copy that hands back the array it was given
copyArrayShared(a, slot, from) == sameArray(a, slot, from)

\* `new Uint8ClampedArray(source)`: a copy, whatever array `from` holds
copyArray(a, slot, from) == allocate(a, slot)

RECURSIVE allocateTimes(_, _, _)
\* n allocations one after the other, the last one kept in `slot`
allocateTimes(a, slot, n) ==
    IF n = 0 THEN a ELSE allocateTimes(allocate(a, slot), slot, n - 1)

\* before the component is mounted
NoComponent == [mounted |-> FALSE]

NoSession ==
    [pairs   |-> << >>,
     calls   |-> 0,
     count   |-> [a \in SeqArgs |-> 0],
     results |-> [a \in SeqArgs |-> {}]]

Init ==
    /\ imageData \in InputImages
    /\ params \in InputParams
    /\ pc = "called"
    /\ workingImageData = NoBuffer
    /\ workingStartingPixel = 0
    /\ stretchedData = NoBuffer
    /\ result = NoBuffer
    /\ thrown = FALSE
    /\ session = NoSession
    /\ arrays = NoArrays
    /\ component = NoComponent
    /\ call = NoCall

\* the index list and the first switch on direction
Normalize ==
    /\ pc = "called"
    /\ LET working == toWorking(imageData, params.startingPixel, params.direction)
       IN  /\ workingImageData' = working.image
           /\ workingStartingPixel' = working.startingPixel
    \* `let workingImageData = imageData` shares the array; every
    \* rotateImageData allocates one
    /\ arrays' = CASE params.direction = "up" -> allocateTimes(arrays, "working", 2)
                   [] params.direction \in {"right", "left"} ->
                        allocateTimes(arrays, "working", 1)
                   [] OTHER -> sameArray(arrays, "working", "input")
    /\ pc' = "normalized"
    /\ UNCHANGED <<imageData, params, stretchedData, result, thrown>>
    /\ UNCHANGED <<call, session, component>>

\* workingStartingPixel < workingImageData.height: buildNewImage
Build ==
    /\ pc = "normalized"
    /\ workingStartingPixel < workingImageData.height
    /\ stretchedData' = buildNewImage(createIndexList(params.stretchRate),
                                      workingImageData, workingStartingPixel)
    \* newData
    /\ arrays' = allocate(arrays, "stretched")
    /\ pc' = "built"
    /\ UNCHANGED <<imageData, params, workingImageData, workingStartingPixel,
                   result, thrown>>
    /\ UNCHANGED <<call, session, component>>

\* the else branch: 'Invalid starting pixel, returning original'
Skip ==
    /\ pc = "normalized"
    /\ ~(workingStartingPixel < workingImageData.height)
    /\ result' = copyOfInput(imageData)
    /\ arrays' = copyArray(arrays, "result", "input")
    /\ pc' = "returned"
    /\ UNCHANGED <<imageData, params, workingImageData, workingStartingPixel,
                   stretchedData, thrown>>
    /\ UNCHANGED <<call, session, component>>

\* the second switch on direction
RotateBack ==
    /\ pc = "built"
    /\ IF rotateBackThrows(stretchedData, params.direction)
       THEN /\ thrown' = TRUE
            /\ pc' = "caught"
            \* the copy for the ImageData is allocated before the
            \* constructor raises, and dropped
            /\ arrays' = [allocate(arrays, "stretched")
                              EXCEPT !.stretched = arrays.stretched]
            /\ UNCHANGED stretchedData
       ELSE /\ stretchedData' = rotateBack(stretchedData, params.direction)
            \* the copy for the ImageData and one array per rotateImageData
            /\ arrays' = CASE params.direction = "up" ->
                                allocateTimes(arrays, "stretched", 3)
                           [] params.direction \in {"right", "left"} ->
                                allocateTimes(arrays, "stretched", 2)
                           [] OTHER -> arrays
            /\ pc' = "rotatedBack"
            /\ UNCHANGED thrown
    /\ UNCHANGED <<imageData, params, workingImageData, workingStartingPixel, result>>
    /\ UNCHANGED <<call, session, component>>

\* cropToOriginalSize and the return
Crop ==
    /\ pc = "rotatedBack"
    /\ result' = cropToOriginalSize(stretchedData, imageData.width, imageData.height,
                                    params.direction)
    \* `return stretchedData` for a buffer of the right size, croppedData
    \* otherwise
    /\ arrays' = IF /\ stretchedData.width = imageData.width
                    /\ stretchedData.height = imageData.height
                 THEN sameArray(arrays, "result", "stretched")
                 ELSE allocate(arrays, "result")
    /\ pc' = "returned"
    /\ UNCHANGED <<imageData, params, workingImageData, workingStartingPixel,
                   stretchedData, thrown>>
    /\ UNCHANGED <<call, session, component>>

\* the catch block
Catch ==
    /\ pc = "caught"
    /\ result' = copyOfInput(imageData)
    /\ arrays' = copyArray(arrays, "result", "input")
    /\ pc' = "returned"
    /\ UNCHANGED <<imageData, params, workingImageData, workingStartingPixel,
                   stretchedData, thrown>>
    /\ UNCHANGED <<call, session, component>>

Next == Normalize \/ Build \/ Skip \/ RotateBack \/ Crop \/ Catch

Spec == Init /\ [][Next]_vars

(***************************************************************************)
(* Direct calls of the functions of the module, one call per behaviour.    *)
(***************************************************************************)
\* largest gradientSize passed to createGradient
MaxGradientSize == 13
\* largest width of a row passed to createGradient
MaxRowWidth == 2
\* largest length of a hand made index list
MaxListLen == 3
\* largest entry of a hand made index list
MaxRun == 2
\* how much wider or taller than the largest input a buffer to crop may be
MaxExcess == 2
\* largest height of a one pixel wide image stretched downwards
MaxTallH == 30
\* largest startingPixel of such a call
MaxTallStart == 2
\* largest height of a one pixel wide source passed to buildNewImage
MaxBuildH == 48
\* largest startingPixel of such a call
MaxBuildStart == 1

SamplePixels == { <<0, 0, 0, 255>>, <<253, 10, 128, 100>>, <<255, 255, 77, 0>> }

\* a row of w pixels as w * 4 bytes
RowsOfWidth(w) ==
    { [i \in 1..(w * 4) |-> pix[((i - 1) \div 4) + 1][((i - 1) % 4) + 1]] :
        pix \in [1..w -> SamplePixels] }

\* every list over 0..MaxRun of at most MaxListLen entries, and the lists
\* createIndexList returns
IndexLists ==
    UNION { [1..n -> 0..MaxRun] : n \in 0..MaxListLen }
        \cup { createIndexList(r) : r \in Intensities }

pending(fn, args) == [fn |-> fn, args |-> args, done |-> FALSE, out |-> << >>]

IndexListCalls == { pending("createIndexList", [stretchRate |-> r]) : r \in Intensities }

GradientCalls ==
    { pending("createGradient",
              [twoRowArray |-> <<a, b>>, gradientSize |-> n, width |-> w]) :
        <<w, a, b>> \in UNION { {w} \X RowsOfWidth(w) \X RowsOfWidth(w) :
                                w \in 1..MaxRowWidth },
        n \in 0..MaxGradientSize }

RotateCalls ==
    { pending("rotateImageData", [imageData |-> img, clockwise |-> cw]) :
        img \in InputImages, cw \in BOOLEAN }

BuildCalls ==
    { pending("buildNewImage",
              [indexList |-> l, sourceImageData |-> c[1], startingPixel |-> c[2]]) :
        l \in IndexLists,
        c \in UNION { {img} \X (0..(img.height - 1)) : img \in InputImages } }

\* the lists of createIndexList applied to sources with more rows than the
\* shortest list has entries
TallBuildCalls ==
    { pending("buildNewImage",
              [indexList |-> createIndexList(r),
               sourceImageData |-> ImageOf("wave", 1, h), startingPixel |-> s]) :
        h \in (MaxH + 1)..MaxBuildH, r \in Intensities, s \in 0..MaxBuildStart }

CropCalls ==
    { pending("cropToOriginalSize",
              [stretchedData |-> ImageOf(kind, sw, sh), originalWidth |-> w,
               originalHeight |-> h, direction |-> d]) :
        kind \in {"ramp", "glass"},
        sw \in 0..(MaxW + MaxExcess), sh \in 0..(MaxH + MaxExcess),
        w \in 1..MaxW, h \in 1..MaxH, d \in Directions }

\* one pixel wide images of up to MaxTallH rows stretched downwards, and the
\* input images with every direction and startingPixel (on at most MaxH rows
\* or columns every intensity uses the same entries of its list: the two
\* ends of the scale stand for all)
StretchCalls ==
    { pending("stretchImage",
              [imageData |-> ImageOf(kind, 1, h),
               params |-> [stretchRate |-> r, startingPixel |-> s,
                           direction |-> "down"]]) :
        kind \in {"wave", "stripes"},
        h \in 1..MaxTallH, r \in Intensities, s \in 0..MaxTallStart }
    \cup
    { pending("stretchImage", [imageData |-> img, params |-> p]) :
        img \in InputImages,
        p \in { q \in InputParams : q.stretchRate \in {1, 13} } }

InitFunctions ==
    /\ imageData = NoBuffer
    /\ params = [stretchRate |-> 13, startingPixel |-> 0, direction |-> "down"]
    /\ pc = "idle"
    /\ workingImageData = NoBuffer
    /\ workingStartingPixel = 0
    /\ stretchedData = NoBuffer
    /\ result = NoBuffer
    /\ thrown = FALSE
    /\ session = NoSession
    /\ arrays = NoArrays
    /\ component = NoComponent
    /\ \/ call \in IndexListCalls
       \/ call \in GradientCalls
       \/ call \in RotateCalls
       \/ call \in BuildCalls
       \/ call \in CropCalls
       \/ call \in StretchCalls

pipelineIdle ==
    UNCHANGED <<imageData, params, pc, workingImageData, workingStartingPixel,
                stretchedData, result, thrown, session, arrays, component>>

returns(value) == call' = [call EXCEPT !.done = TRUE, !.out = value]

CallCreateIndexList ==
    /\ call.fn = "createIndexList" /\ ~call.done
    /\ returns(createIndexList(call.args.stretchRate))
    /\ pipelineIdle

CallCreateGradient ==
    /\ call.fn = "createGradient" /\ ~call.done
    /\ returns(createGradient(call.args.twoRowArray, call.args.gradientSize,
                              call.args.width))
    /\ pipelineIdle

CallRotateImageData ==
    /\ call.fn = "rotateImageData" /\ ~call.done
    /\ returns(rotateImageData(call.args.imageData, call.args.clockwise))
    /\ pipelineIdle

CallBuildNewImage ==
    /\ call.fn = "buildNewImage" /\ ~call.done
    /\ returns(buildNewImage(call.args.indexList, call.args.sourceImageData,
                             call.args.startingPixel))
    /\ pipelineIdle

CallCropToOriginalSize ==
    /\ call.fn = "cropToOriginalSize" /\ ~call.done
    /\ returns(cropToOriginalSize(call.args.stretchedData, call.args.originalWidth,
                                  call.args.originalHeight, call.args.direction))
    /\ pipelineIdle

CallStretchImage ==
    /\ call.fn = "stretchImage" /\ ~call.done
    /\ returns(stretchImage(call.args.imageData, call.args.params))
    /\ pipelineIdle

NextFunctions ==
    \/ CallCreateIndexList
    \/ CallCreateGradient
    \/ CallRotateImageData
    \/ CallBuildNewImage
    \/ CallCropToOriginalSize
    \/ CallStretchImage

SpecFunctions == InitFunctions /\ [][NextFunctions]_vars

\* a finished direct call of fn
returned(fn) == call.fn = fn /\ call.done

(***************************************************************************)
(* buildNewImage called with the lists of createIndexList on sources tall  *)
(* enough to use a list to its end.                                        *)
(***************************************************************************)
InitTall ==
    /\ imageData = NoBuffer
    /\ params = [stretchRate |-> 13, startingPixel |-> 0, direction |-> "down"]
    /\ pc = "idle"
    /\ workingImageData = NoBuffer
    /\ workingStartingPixel = 0
    /\ stretchedData = NoBuffer
    /\ result = NoBuffer
    /\ thrown = FALSE
    /\ session = NoSession
    /\ arrays = NoArrays
    /\ component = NoComponent
    /\ call \in TallBuildCalls

NextTall == CallBuildNewImage

SpecTall == InitTall /\ [][NextTall]_vars

(***************************************************************************)
(* Calls of stretchImage made one after the other.                         *)
(***************************************************************************)
InitCalls ==
    /\ imageData = NoBuffer
    /\ params = [stretchRate |-> 13, startingPixel |-> 0, direction |-> "down"]
    /\ pc = "idle"
    /\ workingImageData = NoBuffer
    /\ workingStartingPixel = 0
    /\ stretchedData = NoBuffer
    /\ result = NoBuffer
    /\ thrown = FALSE
    /\ call = NoCall
    /\ session = NoSession
    /\ arrays = NoArrays
    /\ component = NoComponent

\* one more call: createIndexList makes, scales and reads its pairs array,
\* and the rest of stretchImage runs on the list
CallInSession ==
    /\ session.calls < MaxCalls
    /\ \E a \in SeqArgs :
          LET table  == scalePairs(newPairs(session.pairs), a.params.stretchRate)
              output == stretchImageWith(pushPairs(table, 1), a.imageData, a.params)
          IN  session' = [pairs   |-> table,
                          calls   |-> session.calls + 1,
                          count   |-> [session.count EXCEPT ![a] = @ + 1],
                          results |-> [session.results EXCEPT ![a] = @ \cup {output}]]
    /\ UNCHANGED <<imageData, params, pc, workingImageData, workingStartingPixel,
                   stretchedData, result, thrown, call, arrays, component>>

NextCalls == CallInSession

SpecCalls == InitCalls /\ [][NextCalls]_vars

(***************************************************************************)
(* The ImageStretcher component: its state, the two canvases, the timers   *)
(* it sets and the events it handles.                                      *)
(***************************************************************************)
\* largest width of an uploaded image
MaxImageWidth == 1
\* largest height of an uploaded image
MaxImageHeight == 2
\* applyStretch is called while fewer stretches than this wait for their
\* 50 ms timer
MaxPending == 1

\* two neighbouring positions of the stretch rate slider
ComponentRates == {12, 13}

\* one vertical and one horizontal direction of the four radio buttons (the
\* component treats up as down and left as right)
ComponentDirections == {"down", "right"}

\* images of two rows or more, so that the two sliders have different ranges
UploadedImages == [width : 1..MaxImageWidth, height : 2..MaxImageHeight]

\* imageInfo when it is null, and a timer that is not set
NoImage == [width |-> 0, height |-> 0]

\* params of a canvas that shows no stretch
NoParams == [stretchRate |-> 0, startingPixel |-> 0, direction |-> "none"]

\* a canvas element before anything sets its size
DefaultCanvas == [width |-> 300, height |-> 150]

\* the component after its first render: useState initial values, no image,
\* no timer
MountedComponent ==
    [mounted        |-> TRUE,
     imageInfo      |-> NoImage,
     stretchRate    |-> 13,
     direction      |-> "right",
     startingPixel  |-> 100,
     isProcessing   |-> FALSE,
     \* the size of the hidden canvas, whose pixels getImageData returns
     originalCanvas |-> DefaultCanvas,
     \* what the visible canvas shows
     canvas         |-> [shows |-> "blank", params |-> NoParams],
     \* the 100 ms timer of img.onload: the image it will draw, or NoImage
     uploadTimer    |-> NoImage,
     \* the pending 300 ms timers of the auto-apply effect: [id, closure]
     autoTimers     |-> {},
     \* the timeoutId that the cleanup of the last effect clears, 0 when that
     \* effect set no timer or its timer has fired
     cleanup        |-> 0,
     \* whether the last cleanup found its timer still pending
     cancelled      |-> FALSE,
     \* the pending 50 ms timers of applyStretch, oldest first:
     \* [imageData, params]
     stretchTimers  |-> << >>]

\* the values an effect or a callback created in a render sees
closureOf(c) ==
    [imageInfo |-> c.imageInfo, stretchRate |-> c.stretchRate,
     startingPixel |-> c.startingPixel, direction |-> c.direction,
     isProcessing |-> c.isProcessing]

\* the values applyStretch depends on
valuesOf(closure) ==
    [imageInfo |-> closure.imageInfo, stretchRate |-> closure.stretchRate,
     startingPixel |-> closure.startingPixel, direction |-> closure.direction]

\* a cleanup that clears nothing
timersAfterNoCleanup(c) == c.autoTimers

\* the cleanup of the auto-apply effect: clearTimeout(timeoutId)
timersAfterCleanup(c) == { t \in c.autoTimers : t.id # c.cleanup }

\* the auto-apply effect, run after a render in which imageInfo, stretchRate,
\* startingPixel or direction changed: the cleanup of the effect before, then
\* the early return or a new 300 ms timer
autoApplyEffect(c) ==
    LET kept    == timersAfterCleanup(c)
        id      == CHOOSE i \in 1..(Cardinality(kept) + 1) :
                      \A t \in kept : t.id # i
        cleared == kept # c.autoTimers
    IN  IF c.imageInfo = NoImage \/ c.isProcessing
        THEN [c EXCEPT !.autoTimers = kept, !.cleanup = 0, !.cancelled = cleared]
        ELSE [c EXCEPT !.autoTimers = kept \cup {[id |-> id, closure |-> closureOf(c)]},
                       !.cleanup = id, !.cancelled = cleared]

\* a render after a state change: the effect runs when one of its
\* dependencies differs from the render before
rendered(before, after) ==
    IF valuesOf(closureOf(before)) # valuesOf(closureOf(after))
    THEN autoApplyEffect(after)
    ELSE after

\* startingPixel as applyStretch passes it on
adjustedStartingPixel(closure) ==
    IF closure.direction \in {"left", "right"}
    THEN closure.imageInfo.width - 1 - closure.startingPixel
    ELSE closure.startingPixel

\* the StretchParams that applyStretch builds
paramsOf(closure) ==
    [stretchRate |-> closure.stretchRate,
     startingPixel |-> adjustedStartingPixel(closure),
     direction |-> closure.direction]

\* applyStretch up to its setTimeout: the canvas exists whenever imageInfo
\* is set, and getImageData returns the hidden canvas as it is now
applyStretch(c, closure) ==
    IF closure.imageInfo = NoImage
    THEN c
    ELSE [c EXCEPT !.isProcessing = TRUE,
                   !.stretchTimers =
                        Append(@, [imageData |-> c.originalCanvas,
                                   params |-> paramsOf(closure)])]

\* the dimensions of what stretchImage returns: cropToOriginalSize and both
\* fallbacks return the dimensions of the input
stretchedSize(buffer) == [width |-> buffer.width, height |-> buffer.height]

\* isProcessing stays set when the stretch raised
processingAfterRaiseKept(raised) == raised

\* isProcessing after the callback of the 50 ms timer: every path ends in
\* setIsProcessing(false)
processingAfter(raised) == FALSE

\* img.onload of handleFileUpload: setImageInfo with a new object, so that
\* the auto-apply effect runs, and the 100 ms timer
HandleFileUpload ==
    /\ component.mounted
    /\ component.uploadTimer = NoImage
    /\ \E img \in UploadedImages :
          component' = autoApplyEffect([component EXCEPT !.imageInfo = img,
                                                        !.uploadTimer = img])
    /\ UNCHANGED <<imageData, params, pc, workingImageData, workingStartingPixel,
                   stretchedData, result, thrown, call, session, arrays>>

\* the 100 ms timer: both canvases are drawn and startingPixel is set to the
\* middle of the shorter side
UploadTimerFires ==
    /\ component.mounted
    /\ component.uploadTimer # NoImage
    /\ LET img == component.uploadTimer
       IN  component' =
             rendered(component,
                      [component EXCEPT
                         !.uploadTimer = NoImage,
                         !.originalCanvas = img,
                         !.canvas = [shows |-> "original", params |-> NoParams],
                         !.startingPixel = Min(img.width, img.height) \div 2])
    /\ UNCHANGED <<imageData, params, pc, workingImageData, workingStartingPixel,
                   stretchedData, result, thrown, call, session, arrays>>

\* the stretch rate slider
SetStretchRate ==
    /\ component.mounted
    /\ component.imageInfo # NoImage
    /\ \E rate \in ComponentRates \ {component.stretchRate} :
          component' = rendered(component, [component EXCEPT !.stretchRate = rate])
    /\ UNCHANGED <<imageData, params, pc, workingImageData, workingStartingPixel,
                   stretchedData, result, thrown, call, session, arrays>>

\* the slider that is visible for the direction: 0..width - 1 for left and
\* right, 0..height - 1 for up and down
SetStartingPixel ==
    /\ component.mounted
    /\ component.imageInfo # NoImage
    /\ LET max == IF component.direction \in {"left", "right"}
                  THEN component.imageInfo.width - 1
                  ELSE component.imageInfo.height - 1
       IN  \E value \in (0..max) \ {component.startingPixel} :
             component' = rendered(component,
                                   [component EXCEPT !.startingPixel = value])
    /\ UNCHANGED <<imageData, params, pc, workingImageData, workingStartingPixel,
                   stretchedData, result, thrown, call, session, arrays>>

\* the direction radio buttons
SetDirection ==
    /\ component.mounted
    /\ component.imageInfo # NoImage
    /\ \E d \in ComponentDirections \ {component.direction} :
          component' = rendered(component, [component EXCEPT !.direction = d])
    /\ UNCHANGED <<imageData, params, pc, workingImageData, workingStartingPixel,
                   stretchedData, result, thrown, call, session, arrays>>

\* a 300 ms timer of the auto-apply effect calls the applyStretch of its
\* render; the 100 ms timer of an upload was set before it and fires first
AutoTimerFires ==
    /\ component.mounted
    /\ component.uploadTimer = NoImage
    /\ Len(component.stretchTimers) < MaxPending
    /\ \E t \in component.autoTimers :
          component' = applyStretch([component EXCEPT !.autoTimers = @ \ {t},
                                                      !.cleanup = 0],
                                    t.closure)
    /\ UNCHANGED <<imageData, params, pc, workingImageData, workingStartingPixel,
                   stretchedData, result, thrown, call, session, arrays>>

\* a resize of the window calls the applyStretch of the last render
Resize ==
    /\ component.mounted
    /\ component.imageInfo # NoImage
    /\ Len(component.stretchTimers) < MaxPending
    /\ component' = applyStretch(component, closureOf(component))
    /\ UNCHANGED <<imageData, params, pc, workingImageData, workingStartingPixel,
                   stretchedData, result, thrown, call, session, arrays>>

\* the 50 ms timer of applyStretch: stretchImage, the check of its
\* dimensions and the drawing, or the catch block that draws the original
StretchTimerFires ==
    /\ component.mounted
    /\ component.stretchTimers # << >>
    /\ \E raised \in BOOLEAN :
          LET job       == Head(component.stretchTimers)
              stretched == stretchedSize(job.imageData)
              done      == [component EXCEPT
                              !.stretchTimers = Tail(@),
                              !.isProcessing = processingAfter(raised)]
          IN  component' =
                IF raised
                THEN [done EXCEPT !.canvas = [shows |-> "fallback", params |-> NoParams]]
                ELSE IF stretched.width <= 0 \/ stretched.height <= 0
                THEN done
                ELSE [done EXCEPT !.canvas = [shows |-> "stretched",
                                              params |-> job.params]]
    /\ UNCHANGED <<imageData, params, pc, workingImageData, workingStartingPixel,
                   stretchedData, result, thrown, call, session, arrays>>

InitComponent ==
    /\ imageData = NoBuffer
    /\ params = [stretchRate |-> 13, startingPixel |-> 0, direction |-> "down"]
    /\ pc = "idle"
    /\ workingImageData = NoBuffer
    /\ workingStartingPixel = 0
    /\ stretchedData = NoBuffer
    /\ result = NoBuffer
    /\ thrown = FALSE
    /\ call = NoCall
    /\ session = NoSession
    /\ arrays = NoArrays
    /\ component = MountedComponent

NextComponent ==
    \/ HandleFileUpload
    \/ UploadTimerFires
    \/ SetStretchRate
    \/ SetStartingPixel
    \/ SetDirection
    \/ AutoTimerFires
    \/ Resize
    \/ StretchTimerFires

SpecComponent == InitComponent /\ [][NextComponent]_vars

\* the callback of a 50 ms timer that applyStretch has set runs: nothing
\* clears that timer
SpecComponentFair ==
    /\ SpecComponent
    /\ WF_vars(StretchTimerFires)

(***************************************************************************)
(* Properties of the component.                                            *)
(***************************************************************************)

\* nothing is scheduled: no timer is pending and no stretch is in progress
settled ==
    /\ component.mounted
    /\ component.imageInfo # NoImage
    /\ component.uploadTimer = NoImage
    /\ component.autoTimers = {}
    /\ component.stretchTimers = << >>
    /\ ~component.isProcessing

\* C22: once an image is loaded, no parameter change is lost: when nothing
\* more is scheduled and the last stretch did not raise, the canvas shows a
\* stretch computed with the current stretchRate, startingPixel and direction
C22_LastChangeDrawn ==
    (settled /\ component.canvas.shows # "fallback")
        => /\ component.canvas.shows = "stretched"
           /\ component.canvas.params = paramsOf(closureOf(component))

\* the side of the image along which startingPixel counts
dimension(image, direction) ==
    IF direction \in {"left", "right"} THEN image.width ELSE image.height

\* C28: the startingPixel of every stretch that applyStretch has scheduled
\* lies in 0..dimension - 1 of the image and the direction passed with it
C28_StartingPixelInRange ==
    component.mounted =>
        \A i \in 1..Len(component.stretchTimers) :
            LET job == component.stretchTimers[i]
            IN  job.params.startingPixel
                    \in 0..(dimension(job.imageData, job.params.direction) - 1)

\* C29: whenever applyStretch has set isProcessing, isProcessing is set to
\* false again later, also when the stretch raises
C29_ProcessingEnds ==
    (component.mounted /\ component.isProcessing)
        ~> (component.mounted /\ ~component.isProcessing)

\* a stretch that raised has drawn the original and reset isProcessing
C29_Witness ==
    /\ component.mounted
    /\ component.canvas.shows = "fallback"
    /\ ~component.isProcessing
    /\ component.stretchTimers = << >>

\* C30: at most one 300 ms timer of the auto-apply effect is pending, and it
\* calls applyStretch with the imageInfo, stretchRate, startingPixel and
\* direction of the latest change
C30_OneAutoTimer ==
    component.mounted =>
        /\ Cardinality(component.autoTimers) <= 1
        /\ \A t \in component.autoTimers :
              valuesOf(t.closure) = valuesOf(closureOf(component))

\* a change made before the timer fired has cleared it and set a new one
C30_Witness ==
    /\ component.mounted
    /\ component.cancelled
    /\ Cardinality(component.autoTimers) = 1
    /\ component.stretchRate = 12

(***************************************************************************)
(* Properties of stretchImage.                                             *)
(***************************************************************************)
KnownDirections == {"up", "down", "left", "right"}

\* height for up and down (and the default), width for left and right
dimensionOf(img, direction) ==
    IF direction \in {"left", "right"} THEN img.width ELSE img.height

\* startingPixel clamped to [0, dimension - 1]
clampedStart(img, p) ==
    Max(0, Min(p.startingPixel, dimensionOf(img, p.direction) - 1))

sameRow(a, b, row) == RowOf(a, row) = RowOf(b, row)
sameCol(a, b, col) == ColOf(a, col) = ColOf(b, col)

\* every pixel of the buffer has alpha 255
opaque(img) == \A i \in 1..Len(img.data) : (i - 1) % 4 = 3 => img.data[i] = 255

\* C1: for every input with width >= 1 and height >= 1, every direction in
\* {up, down, left, right}, every intensity in 1..13 and every
\* startingPixel >= 0, the returned buffer has the input's width and height.
C1_SameDimensions ==
    (/\ pc = "returned"
     /\ params.direction \in KnownDirections
     /\ params.startingPixel >= 0)
    => (result.width = imageData.width /\ result.height = imageData.height)

\* a call whose stretched buffer had another size than the input and was cropped
C1_Witness ==
    /\ pc = "returned"
    /\ params.direction \in KnownDirections
    /\ params.startingPixel >= 0
    /\ ~thrown
    /\ (stretchedData.width # imageData.width \/ stretchedData.height # imageData.height)
    /\ stretchedData.height > 0
    /\ result.width = imageData.width /\ result.height = imageData.height

\* C2: when startingPixel is the last valid index (height - 1 for up and
\* down, width - 1 for left and right) or beyond it, the returned buffer is
\* byte for byte the input buffer, for every direction and intensity.
C2_NoOpAtLastIndex ==
    (/\ pc = "returned"
     /\ params.direction \in KnownDirections
     /\ params.startingPixel >= dimensionOf(imageData, params.direction) - 1)
    => (/\ result.data = imageData.data
        /\ result.width = imageData.width
        /\ result.height = imageData.height)

\* C3: if every pixel of the input has alpha 255, every pixel of the returned
\* buffer has alpha 255, for every width and height >= 1, every direction,
\* every intensity in 1..13 and every startingPixel >= 0.
C3_NoTransparency ==
    (/\ pc = "returned"
     /\ params.direction \in KnownDirections
     /\ params.startingPixel >= 0
     /\ opaque(imageData))
    => opaque(result)

\* C4: for direction down with startingPixel clamped to s in [0, height - 1],
\* rows 0..s-1 of the returned buffer are the rows 0..s-1 of the input.
C4_DownRowsBeforeStart ==
    (pc = "returned" /\ params.direction = "down")
    => \A row \in 0..(clampedStart(imageData, params) - 1) :
          sameRow(result, imageData, row)

\* a downward call that left at least one row alone and changed a later one
C4_Witness ==
    /\ pc = "returned"
    /\ params.direction = "down"
    /\ clampedStart(imageData, params) >= 1
    /\ sameRow(result, imageData, 0)
    /\ \E row \in clampedStart(imageData, params)..(imageData.height - 1) :
          ~sameRow(result, imageData, row)

\* C5: for direction up with startingPixel s in [0, height - 1], every row of
\* the output with index greater than s is the same row of the input; this
\* holds for every s including s = 0.
C5_UpRowsAfterStart ==
    (/\ pc = "returned"
     /\ params.direction = "up"
     /\ params.startingPixel \in 0..(imageData.height - 1))
    => \A row \in (params.startingPixel + 1)..(imageData.height - 1) :
          sameRow(result, imageData, row)

\* C6: for direction right, every column of the output with index less than
\* startingPixel s is the same column of the input, for every s in
\* [0, width - 1].
C6_RightColumnsBeforeStart ==
    (/\ pc = "returned"
     /\ params.direction = "right"
     /\ params.startingPixel \in 0..(imageData.width - 1))
    => \A col \in 0..(params.startingPixel - 1) : sameCol(result, imageData, col)

\* C7: for direction left, every column of the output with index greater than
\* startingPixel s is the same column of the input, for every s in
\* [0, width - 1].
C7_LeftColumnsAfterStart ==
    (/\ pc = "returned"
     /\ params.direction = "left"
     /\ params.startingPixel \in 0..(imageData.width - 1))
    => \A col \in (params.startingPixel + 1)..(imageData.width - 1) :
          sameCol(result, imageData, col)

\* C8: the call never raises to its caller: when a stage raises, the call
\* returns a buffer with the input's width and height whose data is a byte for
\* byte copy of the input's data, and the input buffer is never modified.
C8_FallbackReturnsInput ==
    /\ [](pc = "caught" => ENABLED Catch)
    /\ []((pc = "returned" /\ thrown) =>
            (/\ result.width = imageData.width
             /\ result.height = imageData.height
             /\ result.data = imageData.data))
    /\ [][imageData' = imageData]_vars

\* a call that raised while rotating back and has returned
C8_Witness ==
    /\ pc = "returned"
    /\ thrown
    /\ stretchedData.height = 0
    /\ result.data = imageData.data

\* C9: startingPixel is clamped to [0, dimension - 1]: a value above
\* dimension - 1 gives the output of dimension - 1, a value below 0 gives the
\* output of 0, and the row handed to buildNewImage lies in
\* [0, rotatedHeight - 1].
C9_ClampedStart ==
    /\ pc = "returned" =>
          result = stretchImage(imageData,
                       [params EXCEPT !.startingPixel = clampedStart(imageData, params)])
    /\ pc = "built" =>
          workingStartingPixel \in 0..(workingImageData.height - 1)

\* C10: a direction that is none of up, down, left, right is treated as down
\* at every stage: the output is the output of the same call with direction
\* down, and no error is raised.
C10_UnknownDirectionIsDown ==
    (pc = "returned" /\ params.direction \notin KnownDirections)
    => (/\ result = stretchImage(imageData, [params EXCEPT !.direction = "down"])
        /\ ~thrown)

\* a call with an unknown direction that stretched and cropped
C10_Witness ==
    /\ pc = "returned"
    /\ params.direction \notin KnownDirections
    /\ stretchedData.height > imageData.height
    /\ result.data # imageData.data

\* C16: for direction down and startingPixel 0, every height >= 1 and every
\* intensity, the buffer buildNewImage produces (before the crop) has the
\* width of the input and at least its height.
C16_BuiltAtLeastAsTall ==
    (/\ pc = "built"
     /\ params.direction = "down"
     /\ params.startingPixel = 0)
    => (/\ stretchedData.width = imageData.width
        /\ stretchedData.height >= imageData.height)

\* C19: an opaque image of one colour is returned as it is, byte for byte,
\* for every width and height >= 1, every direction, every intensity and
\* every startingPixel inside the image.
C19_FlatFixedPoint ==
    (/\ pc = "returned"
     /\ params.direction \in KnownDirections
     /\ params.startingPixel \in 0..(dimensionOf(imageData, params.direction) - 1)
     /\ imageData = ImageOf("flat", imageData.width, imageData.height))
    => result = imageData

\* C21: stretchImage never stores into the data array of its input, and the
\* data array it returns is never the input's array: not after a stretch,
\* not from the branch that skips the stretch, not from the fallback.
C21_InputNotAliased ==
    /\ arrays.input \notin arrays.written
    /\ pc = "returned" =>
            /\ arrays.result # arrays.input
            /\ arrays.result \in 2..arrays.allocated

\* a downward call: the working buffer is the input itself and the buffer
\* built from it is returned as it is
C21_Witness ==
    /\ pc = "returned"
    /\ params.direction = "down"
    /\ arrays.working = arrays.input
    /\ arrays.result = arrays.stretched
    /\ result # imageData

\* the indexes of an array
indexesOf(data) == 0..(Len(data) - 1)

\* C27: for every input of width and height >= 1, every direction, every
\* intensity and every startingPixel >= 0, every index at which
\* buildNewImage and cropToOriginalSize read a source array lies inside the
\* array, also when the stretched buffer has height 0 or is smaller than the
\* original.
C27_ReadsInsideSource ==
    (params.direction \in KnownDirections /\ params.startingPixel >= 0) =>
        /\ pc = "built" =>
              buildReadIndexes(createIndexList(params.stretchRate),
                               workingImageData, workingStartingPixel)
                  \subseteq indexesOf(workingImageData.data)
        /\ (pc = "returned" /\ ~thrown
                /\ workingStartingPixel < workingImageData.height) =>
              cropReadIndexes(stretchedData, imageData.width, imageData.height,
                              params.direction)
                  \subseteq indexesOf(stretchedData.data)

(***************************************************************************)
(* Properties of the functions called directly.                            *)
(***************************************************************************)
\* the number of entries of a list that equal v
occurrences(list, v) == Cardinality({ i \in 1..Len(list) : list[i] = v })

\* the factor of an intensity: 1 for 13, a quarter more for each step below
\* 13, in quarters
factorQuarters(intensity) == 4 + (13 - intensity)

\* C11: for every intensity i in 1..13 createIndexList(i) is not empty and
\* holds the base table values 1, 2, 3, 5, ..., 987 in table order, each
\* repeated floor(baseCount * factor(i)) times; intensity 13 gives the
\* unscaled counts (41 entries) and intensity 1 four times each count (164
\* entries).
C11_IndexListContents ==
    returned("createIndexList") =>
        LET i    == call.args.stretchRate
            list == call.out
        IN  /\ Len(list) > 0
            /\ \A k \in 1..(Len(list) - 1) : list[k] <= list[k + 1]
            /\ \A k \in 1..Len(list) : \E t \in 1..Len(pairs) : list[k] = pairs[t][1]
            /\ \A t \in 1..Len(pairs) :
                  4 * occurrences(list, pairs[t][1]) <= pairs[t][2] * factorQuarters(i)
                  /\ 4 * (occurrences(list, pairs[t][1]) + 1)
                        > pairs[t][2] * factorQuarters(i)
            /\ i = 13 => (Len(list) = 41
                          /\ \A t \in 1..Len(pairs) :
                                occurrences(list, pairs[t][1]) = pairs[t][2])
            /\ i = 1 => (Len(list) = 164
                         /\ \A t \in 1..Len(pairs) :
                               occurrences(list, pairs[t][1]) = 4 * pairs[t][2])

\* a finished call for an intensity whose factor does not give whole counts
C11_Witness ==
    /\ returned("createIndexList")
    /\ call.args.stretchRate = 12
    /\ occurrences(call.out, 1) = 16
    /\ Len(call.out) = 47

\* the height buildNewImage computes (newHeight) for the list of intensity j
\* on the source and startingPixel of the finished call
heightFor(j) ==
    buildHeight(createIndexList(j), call.args.sourceImageData.height,
                call.args.startingPixel)

\* the source rows after startingPixel that can start a gradient
stepsAvailable == call.args.sourceImageData.height - call.args.startingPixel - 1

C13_GradientRows ==
    returned("createGradient") =>
        LET rowA == call.args.twoRowArray[1]
            rowB == call.args.twoRowArray[2]
            n    == call.args.gradientSize
            q    == call.args.gradientSize + 1
            len  == call.args.width * 4
        IN  /\ Len(call.out) = n + 2
            /\ \A g \in 1..(n + 2) : Len(call.out[g]) = len
            /\ call.out[1] = rowA
            /\ call.out[n + 2] = rowB
            /\ n = 0 => call.out = <<rowA, rowB>>
            /\ \A k \in 1..n : \A i \in 1..len :
                    LET v      == call.out[k + 1][i]
                        \* 2 * q * (A + (B - A) * k / q + 1/2)
                        scaled == 2 * q * rowA[i] + 2 * (rowB[i] - rowA[i]) * k + q
                    IN  IF i % 4 = 0
                        THEN v = 255
                        ELSE 2 * q * v <= scaled /\ scaled < 2 * q * (v + 1)

\* C14: a buffer of width >= 1 and height >= 1 turned by rotateImageData and
\* then turned the other way is the buffer again: same width, height and
\* bytes, whichever turn comes first
C14_RotateRoundTrip ==
    (/\ returned("rotateImageData")
     /\ call.args.imageData.width >= 1
     /\ call.args.imageData.height >= 1)
        => /\ ~imageDataThrows(call.out.data, call.out.width, call.out.height)
           /\ rotateImageData(call.out, ~call.args.clockwise) = call.args.imageData

C14_Witness ==
    /\ returned("rotateImageData")
    /\ call.args.clockwise
    /\ call.args.imageData = ImageOf("ramp", 3, 2)
    /\ call.out.width = 2 /\ call.out.height = 3
    /\ call.out.data # call.args.imageData.data

\* data.length = width * height * 4
wellSized(buffer) == Len(buffer.data) = buffer.width * buffer.height * 4

\* C15: every buffer returned by rotateImageData, buildNewImage,
\* cropToOriginalSize and stretchImage has data.length = width * height * 4,
\* and the height buildNewImage returns (its write cursor) is the height
\* it allocated, for every startingPixel in 0..height - 1 and every index list
C15_BufferSizes ==
    /\ returned("rotateImageData") => wellSized(call.out)
    /\ returned("cropToOriginalSize") => wellSized(call.out)
    /\ returned("stretchImage") => wellSized(call.out)
    /\ returned("buildNewImage") =>
            /\ wellSized(call.out)
            /\ call.out.width = call.args.sourceImageData.width
            /\ call.out.height =
                    buildHeight(call.args.indexList,
                                call.args.sourceImageData.height,
                                call.args.startingPixel)

\* a source with rows left over when the list <<0, 2>> ends
C15_Witness ==
    /\ returned("buildNewImage")
    /\ call.args.sourceImageData.height = 4
    /\ call.args.startingPixel = 0
    /\ call.args.indexList = <<0, 2>>
    /\ call.out.height = 4
    /\ Len(call.out.data) = 16 * call.out.width

\* C17: cropToOriginalSize returns a buffer of originalWidth x originalHeight;
\* a stretched buffer of that size is returned as it is; otherwise target
\* pixel (x, y) is the stretched pixel (min(ax + x, W - 1), min(ay + y, H - 1)),
\* W x H the stretched size, with (ax, ay) = (0, 0) for down and right,
\* (0, max(0, H - originalHeight)) for up and (max(0, W - originalWidth), 0)
\* for left.  (A stretched buffer without pixels, W = 0 or H = 0, has no
\* pixel to name: for it only the size is stated.)
C17_CropAnchors ==
    (returned("cropToOriginalSize") /\ call.args.direction \in KnownDirections) =>
        LET stretched == call.args.stretchedData
            W  == call.args.stretchedData.width
            H  == call.args.stretchedData.height
            ow == call.args.originalWidth
            oh == call.args.originalHeight
            ax == IF call.args.direction = "left" THEN Max(0, W - ow) ELSE 0
            ay == IF call.args.direction = "up" THEN Max(0, H - oh) ELSE 0
        IN  /\ call.out.width = ow
            /\ call.out.height = oh
            /\ Len(call.out.data) = ow * oh * 4
            /\ (W = ow /\ H = oh) => call.out = stretched
            /\ (~(W = ow /\ H = oh) /\ W >= 1 /\ H >= 1) =>
                    \A x \in 0..(ow - 1) : \A y \in 0..(oh - 1) : \A c \in 1..4 :
                        call.out.data[(y * ow + x) * 4 + c]
                            = stretched.data[(Min(ay + y, H - 1) * W
                                              + Min(ax + x, W - 1)) * 4 + c]

\* a crop towards the left of a buffer that is wider but less tall than the
\* original: the anchor is not 0 and the last row is repeated
C17_Witness ==
    /\ returned("cropToOriginalSize")
    /\ call.args.direction = "left"
    /\ call.args.stretchedData = ImageOf("ramp", 4, 2)
    /\ call.args.originalWidth = 2 /\ call.args.originalHeight = 3
    /\ call.out.width = 2 /\ call.out.height = 3
    /\ call.out.data[1] = pixelOf("ramp", 2, 0)[1]
    /\ call.out.data[17] = pixelOf("ramp", 2, 1)[1]

\* the mean of two rows, a half rounded upwards, with alpha 255
meanRow(rowA, rowB) ==
    [i \in 1..Len(rowA) |->
        IF i % 4 = 0 THEN 255 ELSE (rowA[i] + rowB[i] + 1) \div 2]

\* C18: for direction down, startingPixel s with height - s >= 2 and every
\* intensity, every output row y with s <= y < min(height, s + 27) is input
\* row s + k when y - s = 2k, and the mean of input rows s + k and s + k + 1
\* (a half rounded upwards, alpha 255) when y - s = 2k + 1; the one pixel
\* wide image [black, white, black, white] gives
\* [black, 128-grey, white, 128-grey], of height 4
C18_DownInterleavesMeans ==
    (/\ returned("stretchImage")
     /\ call.args.params.direction = "down"
     /\ call.args.params.startingPixel >= 0
     /\ call.args.imageData.height - call.args.params.startingPixel >= 2) =>
        LET input == call.args.imageData
            s     == call.args.params.startingPixel
        IN  /\ \A y \in s..(Min(input.height, s + 27) - 1) :
                    LET k == (y - s) \div 2
                    IN  IF (y - s) % 2 = 0
                        THEN RowOf(call.out, y) = RowOf(input, s + k)
                        ELSE RowOf(call.out, y)
                                = meanRow(RowOf(input, s + k), RowOf(input, s + k + 1))
            /\ (input = ImageOf("stripes", 1, 4) /\ s = 0) =>
                    /\ call.out.height = 4
                    /\ call.out.data = <<0, 0, 0, 255,  128, 128, 128, 255,
                                         255, 255, 255, 255,  128, 128, 128, 255>>

\* a call whose output row s + 26 is the first row of the fourteenth step
C18_Witness ==
    /\ returned("stretchImage")
    /\ call.args.params = [stretchRate |-> 13, startingPixel |-> 2, direction |-> "down"]
    /\ call.args.imageData = ImageOf("wave", 1, 30)
    /\ call.out.height = 30
    /\ RowOf(call.out, 28) = RowOf(call.args.imageData, 15)
    /\ RowOf(call.out, 27)
          = meanRow(RowOf(call.args.imageData, 14), RowOf(call.args.imageData, 15))

RECURSIVE rowsBefore(_, _)
\* the rows the first j steps write: the sum of indexList[i] + 1 over them
rowsBefore(indexList, j) ==
    IF j = 0 THEN 0 ELSE rowsBefore(indexList, j - 1) + indexList[j] + 1

\* C23: buildNewImage(indexList, source, s) with s in 0..height - 1 takes
\* m = min(len(indexList), height - s - 1) steps; step j writes source row
\* s + j, as it is, at row s + (sum of indexList[i] + 1 over i < j) and after
\* it the indexList[j] rows interpolated between source rows s + j and
\* s + j + 1; the output has the width of the source and the height
\* s + (sum of indexList[i] + 1 over i < m)
C23_BuildSteps ==
    returned("buildNewImage") =>
        LET indexList == call.args.indexList
            source    == call.args.sourceImageData
            s         == call.args.startingPixel
            m         == Min(Len(call.args.indexList),
                             call.args.sourceImageData.height
                                - call.args.startingPixel - 1)
        IN  /\ call.out.width = source.width
            /\ call.out.height = s + rowsBefore(indexList, m)
            /\ \A j \in 0..(m - 1) :
                  LET at       == s + rowsBefore(indexList, j)
                      gradient == createGradient(<<RowOf(source, s + j),
                                                   RowOf(source, s + j + 1)>>,
                                                 indexList[j + 1], source.width)
                  IN  /\ RowOf(call.out, at) = RowOf(source, s + j)
                      /\ \A k \in 1..indexList[j + 1] :
                            RowOf(call.out, at + k) = gradient[k + 1]

\* two steps from row 1 of a four row image, the first with two interpolated
\* rows and the second with none
C23_Witness ==
    /\ returned("buildNewImage")
    /\ call.args.indexList = <<2, 0, 1>>
    /\ call.args.sourceImageData = ImageOf("ramp", 2, 4)
    /\ call.args.startingPixel = 1
    /\ call.out.height = 5
    /\ RowOf(call.out, 4) = RowOf(call.args.sourceImageData, 2)
    /\ RowOf(call.out, 2) # RowOf(call.out, 3)

\* C24: createGradient(A, A, n, width) has in every row k of 0..n + 1 the
\* R, G and B bytes of A; rows 1..n have alpha 255 whatever the alpha of A,
\* rows 0 and n + 1 the alpha of A
C24_GradientOfEqualRows ==
    (/\ returned("createGradient")
     /\ call.args.twoRowArray[1] = call.args.twoRowArray[2]) =>
        LET rowA == call.args.twoRowArray[1]
            n    == call.args.gradientSize
        IN  \A k \in 0..(n + 1) : \A i \in 1..(call.args.width * 4) :
                call.out[k + 1][i]
                    = IF i % 4 = 0 /\ k \in 1..n THEN 255 ELSE rowA[i]

\* a row with alpha 100 between itself, thirteen rows in between
C24_Witness ==
    /\ returned("createGradient")
    /\ call.args.twoRowArray = << <<253, 10, 128, 100>>, <<253, 10, 128, 100>> >>
    /\ call.args.gradientSize = 13
    /\ call.out[1] = <<253, 10, 128, 100>>
    /\ call.out[8] = <<253, 10, 128, 255>>
    /\ call.out[15] = <<253, 10, 128, 100>>

\* the four bytes of pixel (x, y) of a buffer
pixelAt(buffer, x, y) ==
    [c \in 1..4 |-> buffer.data[(y * buffer.width + x) * 4 + c]]

\* C25: rotateImageData turns a width x height buffer into a height x width
\* buffer with source pixel (x, y) at (height - 1 - y, x) when clockwise and
\* at (y, width - 1 - x) when counter-clockwise; every target pixel is
\* written exactly once; clockwise twice puts source pixel (x, y) at
\* (width - 1 - x, height - 1 - y) of a width x height buffer
C25_RotationMapping ==
    returned("rotateImageData") =>
        LET source == call.args.imageData
            width  == call.args.imageData.width
            height == call.args.imageData.height
            twice  == rotateImageData(call.out, TRUE)
        IN  /\ call.out.width = height
            /\ call.out.height = width
            /\ Len(call.out.data) = width * height * 4
            /\ \A x \in 0..(width - 1) : \A y \in 0..(height - 1) :
                  pixelAt(call.out,
                          IF call.args.clockwise THEN height - 1 - y ELSE y,
                          IF call.args.clockwise THEN x ELSE width - 1 - x)
                      = pixelAt(source, x, y)
            /\ \A t \in 0..(width * height - 1) :
                  Cardinality({ p \in (0..(width - 1)) \X (0..(height - 1)) :
                                  rotateTargetIndex(p[1], p[2], width, height,
                                                    call.args.clockwise) = t * 4 }) = 1
            /\ call.args.clockwise =>
                  /\ twice.width = width
                  /\ twice.height = height
                  /\ \A x \in 0..(width - 1) : \A y \in 0..(height - 1) :
                        pixelAt(twice, width - 1 - x, height - 1 - y)
                            = pixelAt(source, x, y)

\* a counter-clockwise turn of a 3 x 2 image: the last pixel of the first
\* row becomes the first pixel
C25_Witness ==
    /\ returned("rotateImageData")
    /\ ~call.args.clockwise
    /\ call.args.imageData = ImageOf("glass", 3, 2)
    /\ call.out.width = 2 /\ call.out.height = 3
    /\ pixelAt(call.out, 0, 0) = pixelOf("glass", 2, 0)
    /\ pixelAt(call.out, 1, 2) = pixelOf("glass", 0, 1)

\* a buffer turned by 180 degrees
rot180(buffer) == rotateImageData(rotateImageData(buffer, TRUE), TRUE)

\* C26: direction only changes the orientation: for every buffer B of
\* height h, every s in 0..h - 1 and every intensity,
\* stretchImage(rot180(B), up, h - 1 - s) is rot180(stretchImage(B, down, s))
\* byte for byte, also for s = h - 1, where the stretched buffer is shorter
\* than the original and the crop clamps
C26_UpIsDownTurned ==
    (/\ returned("stretchImage")
     /\ call.args.params.direction = "down"
     /\ call.args.params.startingPixel \in 0..(call.args.imageData.height - 1)) =>
        stretchImage(rot180(call.args.imageData),
                     [call.args.params EXCEPT
                        !.direction = "up",
                        !.startingPixel = call.args.imageData.height - 1 - @])
            = rot180(call.out)

(***************************************************************************)
(* Properties of calls made one after the other.                           *)
(***************************************************************************)
\* C20: stretchImage is deterministic and keeps nothing between calls: calls
\* with the same buffer and params return the same bytes and dimensions,
\* whatever calls with other arguments are made before or between them
C20_SameArgumentsSameOutput ==
    \A a \in SeqArgs :
        session.count[a] >= 1 => Cardinality(session.results[a]) = 1

\* the same arguments passed twice and other arguments once
C20_Witness ==
    \E a, b \in SeqArgs :
        /\ a.imageData.height = MaxSeqH
        /\ a.params.stretchRate = 13
        /\ b.params.stretchRate = 1
        /\ session.count[a] = 2
        /\ session.count[b] = 1
        /\ session.results[a] = {stretchImage(a.imageData, a.params)}

====
